---- MODULE Spec2Model ----
(***************************************************************************)
(* Model of the filesystem-watch daemon of dim                             *)
(* (src/scanners/scanner_daemon.rs, trait ScannerDaemon).                  *)
(*                                                                         *)
(* The daemon receives debounced notifications from a channel and          *)
(* dispatches each to handle_create, handle_rename or handle_remove.       *)
(* The handlers talk to the catalog (MediaFile = File record, Media = Work *)
(* record) and to the ingestors (mount_file, start, fix_orphans).  The     *)
(* catalog and the ingestors live in other crates; they are modelled from  *)
(* their interface: every call may succeed or fail, and each call a        *)
(* handler makes is appended to a call log.                                *)
(***************************************************************************)
EXTENDS Naturals, Integers, Sequences, FiniteSets, TLC

(* ------------------------------ bounds -------------------------------- *)
\* The ids a MediaFile row can have.
MaxFiles == 3
FileIds == 1..MaxFiles

\* The ids of the Media rows.
WorkIds == {"m1", "m2"}

\* The failed receives that are counted.
MaxErrs == 2

\* The notifications the watcher sends into the channel.
MaxSent == 2

(* ------------------------ Option<T> and paths -------------------------- *)
None == <<>>
Some(x) == <<x>>
is_some(o) == Len(o) = 1
unwrap(o) == o[1]

\* A byte string that is not valid UTF-8.
BadBytes == "\\xFF"
NoExt == ""

\* PathBuf values under the library root: a file stem and an extension.
Paths ==
  { [stem |-> "a", ext |-> "mkv"],
    [stem |-> "b", ext |-> "jpg"],
    [stem |-> "c", ext |-> NoExt],
    [stem |-> "e", ext |-> BadBytes] }

\* OsStr::to_str: Some(text) only when the bytes are valid UTF-8.
os_to_str(s) == IF s = BadBytes THEN None ELSE Some(s)

\* Path::to_str: the text form of a path (a pair), None when any component
\* is not valid UTF-8.
to_str(p) ==
  IF is_some(os_to_str(p.stem)) /\ is_some(os_to_str(p.ext))
    THEN Some(<<p.stem, p.ext>>)
    ELSE None

\* Path::extension: None for a path without an extension.
extension(p) == IF p.ext = NoExt THEN None ELSE Some(p.ext)

\* The texts a catalog row can hold as its target_file.
Texts == { unwrap(to_str(p)) : p \in { q \in Paths : is_some(to_str(q)) } }

\* <Self as MediaScanner>::SUPPORTED_EXTS
SUPPORTED_EXTS == {"mkv", "mp4"}

\* The type of the file a path refers to at the time the handler looks.
FileTypes == {"file", "dir", "other"}
is_file(ftype) == ftype = "file"
is_dir(ftype) == ftype = "dir"

(* ------------------------------ state ---------------------------------- *)
VARIABLES
  files,      \* the MediaFile rows of the catalog
  works,      \* the ids of the Media rows of the catalog
  pc,         \* where start_daemon is
  connected,  \* whether the notification channel still has its sender
  ev,         \* the notification the loop dispatched last
  ftype,      \* what the last Create's path referred to on disk
  pre,        \* the catalog before the last notification was handled
  calls,      \* the collaborator calls the last handler made, in order
  prior,      \* the notification handled before ev, when it changed the catalog
  errs,       \* how many receives have failed, counted up to MaxErrs
  queue,      \* the notifications sent into the channel and not yet received
  sent,       \* how many notifications the watcher has sent
  running,    \* the handler runs that have started and not yet returned
  log         \* every receive, collaborator call and return so far, in order

\* The channel and the handler runs in progress.
qvars == <<queue, sent, running, log>>

vars == <<files, works, pc, connected, ev, ftype, pre, calls, prior, errs,
          queue, sent, running, log>>

NoEvent == [kind |-> "None", path |-> None, to |-> None]

\* The catalogs the daemon can be started on.  A MediaFile row has an id, a
\* target_file (its path as text), the id of its Media and further columns
\* (quality stands for them); ids and target_files are keys, and every
\* row's Media exists.
Row(i, t, w) ==
  [id |-> i, target_file |-> t, media_id |-> w, quality |-> "1080p"]

Absent == <<>>

Catalogs ==
  { [files |-> { Row(i, x[1][i][1], x[1][i][2]) :
                   i \in { j \in FileIds : x[1][j] # Absent } },
     works |-> x[2]] :
      x \in
        { y \in [FileIds -> {Absent} \cup (Texts \X WorkIds)] \X SUBSET WorkIds :
            /\ \A i, j \in FileIds :
                 (y[1][i] # Absent /\ y[1][j] # Absent /\ i # j)
                   => y[1][i][1] # y[1][j][1]
            /\ \A i \in FileIds : y[1][i] # Absent => y[1][i][2] \in y[2] } }

(* --------------------- the catalog store (database crate) -------------- *)
\* The outcome of every store and ingestor call of one handler run: TRUE
\* when the call does not fail.
Oracles ==
  [get_by_file : BOOLEAN, get_of_mediafile : BOOLEAN, delete_file : BOOLEAN,
   get_of_media : BOOLEAN, delete_media : BOOLEAN, update : BOOLEAN,
   mount_file : BOOLEAN]

\* The outcomes each handler can observe (the calls it never makes are
\* left TRUE).
CreateOracles ==
  [get_by_file : {TRUE}, get_of_mediafile : {TRUE}, delete_file : {TRUE},
   get_of_media : {TRUE}, delete_media : {TRUE}, update : {TRUE},
   mount_file : BOOLEAN]
RemoveOracles ==
  [get_by_file : BOOLEAN, get_of_mediafile : BOOLEAN, delete_file : BOOLEAN,
   get_of_media : BOOLEAN, delete_media : BOOLEAN, update : {TRUE},
   mount_file : {TRUE}]
RenameOracles ==
  [get_by_file : BOOLEAN, get_of_mediafile : {TRUE}, delete_file : {TRUE},
   get_of_media : {TRUE}, delete_media : {TRUE}, update : BOOLEAN,
   mount_file : {TRUE}]

Call(op, arg, ok) == [op |-> op, arg |-> arg, ok |-> ok]

\* MediaFile::get_by_file(conn, x).ok(): the row whose target_file is x.
get_by_file(fs, x, ok) ==
  IF ok /\ \E f \in fs : f.target_file = x
    THEN Some(CHOOSE f \in fs : f.target_file = x)
    ELSE None

\* Media::get_of_mediafile(conn, &media_file).ok(): the id of the Media
\* the row belongs to.
get_of_mediafile(ws, f, ok) ==
  IF ok /\ f.media_id \in ws THEN Some(f.media_id) ELSE None

\* MediaFile::delete(conn, id): the rows after a successful delete.
delete_file(fs, id) == { f \in fs : f.id # id }

\* MediaFile::get_of_media(conn, &media): the rows of a Media.
get_of_media(fs, w) == { f \in fs : f.media_id = w }

\* Media::delete(conn, id): the Media ids after a successful delete.
delete_media(ws, w) == ws \ {w}

\* UpdateMediaFile { .. }.update(conn, id): sets the columns of the query
\* that are Some on the row with that id.  It fails when the store fails or
\* when another row already holds the new target_file.
update_ok(fs, q, id, ok) ==
  /\ ok
  /\ \E f \in fs : f.id = id
  /\ is_some(q.target_file) =>
       ~ \E g \in fs : g.id # id /\ g.target_file = unwrap(q.target_file)

update_rows(fs, q, id) ==
  { IF f.id # id THEN f
    ELSE [id |-> f.id,
          target_file |-> IF is_some(q.target_file)
                            THEN unwrap(q.target_file) ELSE f.target_file,
          media_id |-> IF is_some(q.media_id)
                         THEN unwrap(q.media_id) ELSE f.media_id,
          quality |-> IF is_some(q.quality)
                        THEN unwrap(q.quality) ELSE f.quality] : f \in fs }

\* UpdateMediaFile::default(): no column is set.
UpdateMediaFile_default ==
  [target_file |-> None, media_id |-> None, quality |-> None]

\* What a handler run leaves behind.
Result(fs, ws, cs, out) ==
  [files |-> fs, works |-> ws, calls |-> cs, outcome |-> out]

(* ------------------------- handle_create ------------------------------- *)
\* path.extension().and_then(|e| e.to_str())
extension_str(path) ==
  IF is_some(extension(path)) THEN os_to_str(unwrap(extension(path))) ELSE None

\* Faulty variant of has_supported_ext: map_or(true, ..), so a path without
\* a text extension counts as supported.
has_supported_ext_default_true(path) ==
  IF is_some(extension_str(path))
    THEN unwrap(extension_str(path)) \in SUPPORTED_EXTS
    ELSE TRUE

\* path.extension().and_then(|e| e.to_str())
\*     .map_or(false, |e| SUPPORTED_EXTS.contains(&e))
has_supported_ext(path) ==
  IF is_some(extension_str(path))
    THEN unwrap(extension_str(path)) \in SUPPORTED_EXTS
    ELSE FALSE

\* Faulty variant of handle_create: a failed mount does not return, so
\* fix_orphans still runs.
handle_create_no_return(fs, ws, path, ft, o) ==
  LET fix == Call("fix_orphans", None, TRUE) IN
  IF is_file(ft) /\ has_supported_ext(path)
    THEN Result(fs, ws, <<Call("mount_file", path, o.mount_file), fix>>, "returned")
    ELSE IF is_dir(ft)
      THEN Result(fs, ws, <<Call("start", to_str(path), TRUE), fix>>, "returned")
      ELSE Result(fs, ws, <<fix>>, "returned")

\* Faulty variant of handle_create: fix_orphans runs before the directory
\* scan.
handle_create_fix_first(fs, ws, path, ft, o) ==
  LET fix == Call("fix_orphans", None, TRUE) IN
  IF is_file(ft) /\ has_supported_ext(path)
    THEN LET c1 == <<Call("mount_file", path, o.mount_file)>> IN
         IF ~ o.mount_file
           THEN Result(fs, ws, c1, "returned")
           ELSE Result(fs, ws, Append(c1, fix), "returned")
    ELSE IF is_dir(ft)
      THEN Result(fs, ws, <<fix, Call("start", to_str(path), TRUE)>>, "returned")
      ELSE Result(fs, ws, <<fix>>, "returned")

\* Faulty variant of handle_create: the is_file test is left out, so only
\* the extension decides whether mount runs.
handle_create_ext_only(fs, ws, path, ft, o) ==
  LET fix == Call("fix_orphans", None, TRUE) IN
  IF has_supported_ext(path)
    THEN LET c1 == <<Call("mount_file", path, o.mount_file)>> IN
         IF ~ o.mount_file
           THEN Result(fs, ws, c1, "returned")
           ELSE Result(fs, ws, Append(c1, fix), "returned")
    ELSE IF is_dir(ft)
      THEN Result(fs, ws, <<Call("start", to_str(path), TRUE), fix>>, "returned")
      ELSE Result(fs, ws, <<fix>>, "returned")

\* fn handle_create(&self, path: PathBuf); ft is what the path refers to on
\* disk while the handler runs.
handle_create(fs, ws, path, ft, o) ==
  LET fix == Call("fix_orphans", None, TRUE) IN
  IF is_file(ft) /\ has_supported_ext(path)
    THEN LET c1 == <<Call("mount_file", path, o.mount_file)>> IN
         IF ~ o.mount_file
           THEN Result(fs, ws, c1, "returned")
           ELSE Result(fs, ws, Append(c1, fix), "returned")
    ELSE IF is_dir(ft)
      THEN Result(fs, ws, <<Call("start", to_str(path), TRUE), fix>>, "returned")
      ELSE Result(fs, ws, <<fix>>, "returned")

(* ------------------------- handle_remove ------------------------------- *)
\* path.to_str().and_then(|x| MediaFile::get_by_file(conn, x).ok()), with
\* the call it makes.
lookup(fs, path, ok) ==
  LET x == to_str(path) IN
  IF ~ is_some(x)
    THEN [row |-> None, calls |-> <<>>]
    ELSE LET r == get_by_file(fs, unwrap(x), ok) IN
         [row |-> r,
          calls |-> <<Call("MediaFile::get_by_file", unwrap(x), is_some(r))>>]

\* Faulty variant of purge_ghost: the Media is deleted without testing that
\* its row list is empty.
purge_ghost_unchecked(fs, ws, media, cs, o) ==
  IF ~ is_some(media)
    THEN Result(fs, ws, cs, "returned")
    ELSE
      LET w  == unwrap(media)
          c1 == Append(cs, Call("MediaFile::get_of_media", w, o.get_of_media))
          c2 == Append(c1, Call("Media::delete", w, o.delete_media))
      IN IF ~ o.get_of_media
           THEN Result(fs, ws, c1, "returned")
           ELSE IF ~ o.delete_media
             THEN Result(fs, ws, c2, "returned")
             ELSE Result(fs, delete_media(ws, w), c2, "returned")

\* Faulty variant of purge_ghost: the emptiness test is inverted.
purge_ghost_inverted(fs, ws, media, cs, o) ==
  IF ~ is_some(media)
    THEN Result(fs, ws, cs, "returned")
    ELSE
      LET w  == unwrap(media)
          c1 == Append(cs, Call("MediaFile::get_of_media", w, o.get_of_media))
          c2 == Append(c1, Call("Media::delete", w, o.delete_media))
      IN IF ~ o.get_of_media
           THEN Result(fs, ws, c1, "returned")
           ELSE IF get_of_media(fs, w) = {}
             THEN Result(fs, ws, c1, "returned")
             ELSE IF ~ o.delete_media
               THEN Result(fs, ws, c2, "returned")
               ELSE Result(fs, delete_media(ws, w), c2, "returned")

\* The ghost-media purge of handle_remove, run after the row is deleted:
\* media is the result of Media::get_of_mediafile, fs the rows that remain.
purge_ghost(fs, ws, media, cs, o) ==
  IF ~ is_some(media)
    THEN Result(fs, ws, cs, "returned")
    ELSE
      LET w  == unwrap(media)
          c1 == Append(cs, Call("MediaFile::get_of_media", w, o.get_of_media))
          c2 == Append(c1, Call("Media::delete", w, o.delete_media))
      IN IF ~ o.get_of_media
           THEN Result(fs, ws, c1, "returned")
           ELSE IF get_of_media(fs, w) # {}
             THEN Result(fs, ws, c1, "returned")
             ELSE IF ~ o.delete_media
               THEN Result(fs, ws, c2, "returned")
               ELSE Result(fs, delete_media(ws, w), c2, "returned")

\* Faulty variant of handle_remove: the ghost-media purge is left out.
handle_remove_no_purge(fs, ws, path, o) ==
  LET l == lookup(fs, path, o.get_by_file) IN
  IF ~ is_some(l.row)
    THEN Result(fs, ws, l.calls, "returned")
    ELSE
      LET media_file == unwrap(l.row)
          media == get_of_mediafile(ws, media_file, o.get_of_mediafile)
          c1 == Append(l.calls,
                  Call("Media::get_of_mediafile", media_file.id, is_some(media)))
          c2 == Append(c1, Call("MediaFile::delete", media_file.id, o.delete_file))
      IN IF ~ o.delete_file
           THEN Result(fs, ws, c2, "returned")
           ELSE Result(delete_file(fs, media_file.id), ws, c2, "returned")

\* Faulty variant of handle_remove: the lookup result is unwrapped, so a
\* path that resolves to no row panics.
handle_remove_unwrap(fs, ws, path, o) ==
  LET l == lookup(fs, path, o.get_by_file) IN
  IF ~ is_some(l.row)
    THEN Result(fs, ws, l.calls, "panicked")
    ELSE
      LET media_file == unwrap(l.row)
          media == get_of_mediafile(ws, media_file, o.get_of_mediafile)
          c1 == Append(l.calls,
                  Call("Media::get_of_mediafile", media_file.id, is_some(media)))
          c2 == Append(c1, Call("MediaFile::delete", media_file.id, o.delete_file))
      IN IF ~ o.delete_file
           THEN Result(fs, ws, c2, "returned")
           ELSE purge_ghost(delete_file(fs, media_file.id), ws, media, c2, o)

\* Faulty variant of handle_remove: a failed MediaFile::delete does not
\* return, so the ghost-media purge still runs.
handle_remove_no_abort(fs, ws, path, o) ==
  LET l == lookup(fs, path, o.get_by_file) IN
  IF ~ is_some(l.row)
    THEN Result(fs, ws, l.calls, "returned")
    ELSE
      LET media_file == unwrap(l.row)
          media == get_of_mediafile(ws, media_file, o.get_of_mediafile)
          c1 == Append(l.calls,
                  Call("Media::get_of_mediafile", media_file.id, is_some(media)))
          c2 == Append(c1, Call("MediaFile::delete", media_file.id, o.delete_file))
      IN purge_ghost(IF o.delete_file THEN delete_file(fs, media_file.id) ELSE fs,
                     ws, media, c2, o)

\* Faulty variant of handle_remove: when Media::delete fails the deleted
\* row is put back.
handle_remove_rollback(fs, ws, path, o) ==
  LET l == lookup(fs, path, o.get_by_file) IN
  IF ~ is_some(l.row)
    THEN Result(fs, ws, l.calls, "returned")
    ELSE
      LET media_file == unwrap(l.row)
          media == get_of_mediafile(ws, media_file, o.get_of_mediafile)
          c1 == Append(l.calls,
                  Call("Media::get_of_mediafile", media_file.id, is_some(media)))
          c2 == Append(c1, Call("MediaFile::delete", media_file.id, o.delete_file))
          r  == purge_ghost(delete_file(fs, media_file.id), ws, media, c2, o)
      IN IF ~ o.delete_file
           THEN Result(fs, ws, c2, "returned")
           ELSE IF r.calls[Len(r.calls)].op = "Media::delete"
                     /\ ~ r.calls[Len(r.calls)].ok
             THEN Result(fs, ws, r.calls, "returned")
             ELSE r

\* fn handle_remove(&self, path: PathBuf)
handle_remove(fs, ws, path, o) ==
  LET l == lookup(fs, path, o.get_by_file) IN
  IF ~ is_some(l.row)
    THEN Result(fs, ws, l.calls, "returned")
    ELSE
      LET media_file == unwrap(l.row)
          media == get_of_mediafile(ws, media_file, o.get_of_mediafile)
          c1 == Append(l.calls,
                  Call("Media::get_of_mediafile", media_file.id, is_some(media)))
          c2 == Append(c1, Call("MediaFile::delete", media_file.id, o.delete_file))
      IN IF ~ o.delete_file
           THEN Result(fs, ws, c2, "returned")
           ELSE purge_ghost(delete_file(fs, media_file.id), ws, media, c2, o)

(* ------------------------- handle_rename ------------------------------- *)
\* Faulty variant of update_query: the query also sets media_id.
update_query_sets_media(text) ==
  [UpdateMediaFile_default EXCEPT !.target_file = Some(text),
                                  !.media_id = Some("m1")]

\* UpdateMediaFile { target_file: Some(text), ..Default::default() }
update_query(text) == [UpdateMediaFile_default EXCEPT !.target_file = Some(text)]

\* Faulty variant of handle_rename: the destination is unwrapped before the
\* origin is looked up.
handle_rename_unwrap_first(fs, ws, from, to, o) ==
  IF ~ is_some(to_str(to))
    THEN Result(fs, ws, <<>>, "panicked")
    ELSE
      LET l == lookup(fs, from, o.get_by_file) IN
      IF ~ is_some(l.row)
        THEN Result(fs, ws, l.calls, "returned")
        ELSE
          LET media_file == unwrap(l.row)
              q  == update_query(unwrap(to_str(to)))
              ok == update_ok(fs, q, media_file.id, o.update)
              c1 == Append(l.calls,
                      Call("UpdateMediaFile::update", <<media_file.id, q>>, ok))
          IN Result(IF ok THEN update_rows(fs, q, media_file.id) ELSE fs,
                    ws, c1, "returned")

\* Faulty variant of handle_rename: the lookup result is unwrapped, so an
\* origin that resolves to no row panics.
handle_rename_unwrap_row(fs, ws, from, to, o) ==
  LET l == lookup(fs, from, o.get_by_file) IN
  IF ~ is_some(l.row) \/ ~ is_some(to_str(to))
    THEN Result(fs, ws, l.calls, "panicked")
    ELSE
      LET media_file == unwrap(l.row)
          q  == update_query(unwrap(to_str(to)))
          ok == update_ok(fs, q, media_file.id, o.update)
          c1 == Append(l.calls,
                  Call("UpdateMediaFile::update", <<media_file.id, q>>, ok))
      IN Result(IF ok THEN update_rows(fs, q, media_file.id) ELSE fs,
                ws, c1, "returned")

\* fn handle_rename(&self, from: PathBuf, to: PathBuf).  to.to_str().unwrap()
\* panics when the destination is not valid UTF-8.
handle_rename(fs, ws, from, to, o) ==
  LET l == lookup(fs, from, o.get_by_file) IN
  IF ~ is_some(l.row)
    THEN Result(fs, ws, l.calls, "returned")
    ELSE
      LET media_file == unwrap(l.row) IN
      IF ~ is_some(to_str(to))
        THEN Result(fs, ws, l.calls, "panicked")
        ELSE
          LET q  == update_query(unwrap(to_str(to)))
              ok == update_ok(fs, q, media_file.id, o.update)
              c1 == Append(l.calls,
                      Call("UpdateMediaFile::update", <<media_file.id, q>>, ok))
          IN Result(IF ok THEN update_rows(fs, q, media_file.id) ELSE fs,
                    ws, c1, "returned")

(* --------------------------- start_daemon ------------------------------ *)
Init ==
  /\ \E c \in Catalogs : files = c.files /\ works = c.works /\ pre = c
  /\ pc = "start"
  /\ connected = TRUE
  /\ ev = NoEvent
  /\ ftype = "unobserved"
  /\ calls = <<>>
  /\ prior = None
  /\ errs = 0
  /\ queue = <<>>
  /\ sent = 0
  /\ running = {}
  /\ log = <<>>

\* The catalog of a state.
Catalog(fs, ws) == [files |-> fs, works |-> ws]

\* What the notification handled last did, when it changed the catalog: the
\* notification and the number of rows it deleted.
Effect ==
  IF Catalog(files, works) = pre
    THEN None
    ELSE Some([ev |-> ev, deleted |-> Cardinality(pre.files \ files)])

\* The loop's state after a handler ran: a panic unwinds out of the loop.
Handled(e, ft, r) ==
  /\ ev' = e
  /\ prior' = Effect
  /\ ftype' = ft
  /\ pre' = Catalog(files, works)
  /\ files' = r.files
  /\ works' = r.works
  /\ calls' = r.calls
  /\ pc' = IF r.outcome = "panicked" THEN "panicked" ELSE "loop"
  /\ UNCHANGED <<connected, errs>>
  /\ UNCHANGED qvars

\* Watcher::new(tx, 1s)? and watcher.watch(location, Recursive)?: either
\* failure returns from start_daemon before the loop.
Setup ==
  /\ pc = "start"
  /\ \E new_ok \in BOOLEAN, watch_ok \in BOOLEAN :
       pc' = IF new_ok /\ watch_ok THEN "loop" ELSE "failed"
  /\ UNCHANGED <<files, works, connected, ev, ftype, pre, calls, prior, errs>>
  /\ UNCHANGED qvars

\* Faulty variant of Receiving: the loop is entered although the watch
\* could not be set up (its error is dropped instead of returned).
Receiving_after_failed_setup == pc \in {"loop", "failed"} /\ connected

\* The loop is blocked in rx.recv() and the channel still has its sender.
Receiving == pc = "loop" /\ connected

\* Ok(DebouncedEvent::Create(path)) => self.handle_create(path)
RecvCreate ==
  /\ Receiving
  /\ \E path \in Paths, ft \in FileTypes :
       \E r \in { handle_create(files, works, path, ft, o) : o \in CreateOracles } :
         Handled([kind |-> "Create", path |-> Some(path), to |-> None], ft, r)

\* Ok(DebouncedEvent::Rename(from, to)) => self.handle_rename(from, to)
RecvRename ==
  /\ Receiving
  /\ \E from \in Paths, to \in Paths :
       \E r \in { handle_rename(files, works, from, to, o) : o \in RenameOracles } :
         Handled([kind |-> "Rename", path |-> Some(from), to |-> Some(to)],
                 "unobserved", r)

\* Ok(DebouncedEvent::Remove(path)) => self.handle_remove(path)
RecvRemove ==
  /\ Receiving
  /\ \E path \in Paths :
       \E r \in { handle_remove(files, works, path, o) : o \in RemoveOracles } :
         Handled([kind |-> "Remove", path |-> Some(path), to |-> None],
                 "unobserved", r)

\* Faulty variant of RecvOther: the catch-all arm runs fix_orphans.
RecvOther_fix_orphans ==
  /\ Receiving
  /\ Handled([kind |-> "Other", path |-> None, to |-> None], "unobserved",
             Result(files, works, <<Call("fix_orphans", None, TRUE)>>, "returned"))

\* Ok(event) => debug!(..): any other notification is only logged.
RecvOther ==
  /\ Receiving
  /\ Handled([kind |-> "Other", path |-> None, to |-> None], "unobserved",
             Result(files, works, <<>>, "returned"))

\* Faulty variant of RecvError: the Err arm leaves the loop.
RecvError_break ==
  /\ pc = "loop"
  /\ connected' = FALSE
  /\ errs' = IF errs < MaxErrs THEN errs + 1 ELSE errs
  /\ ev' = [kind |-> "Error", path |-> None, to |-> None]
  /\ ftype' = "unobserved"
  /\ pre' = Catalog(files, works)
  /\ calls' = <<>>
  /\ prior' = Effect
  /\ pc' = "returned"
  /\ UNCHANGED <<files, works>>
  /\ UNCHANGED qvars

\* Err(e) => error!(..): recv fails once the channel has lost its sender,
\* and then fails on every later call; the loop logs and goes on.
RecvError ==
  /\ pc = "loop"
  /\ connected' = FALSE
  /\ errs' = IF errs < MaxErrs THEN errs + 1 ELSE errs
  /\ ev' = [kind |-> "Error", path |-> None, to |-> None]
  /\ ftype' = "unobserved"
  /\ pre' = Catalog(files, works)
  /\ calls' = <<>>
  /\ prior' = Effect
  /\ UNCHANGED <<files, works, pc>>
  /\ UNCHANGED qvars

Next ==
  \/ Setup
  \/ RecvCreate
  \/ RecvRename
  \/ RecvRemove
  \/ RecvOther
  \/ RecvError

Spec == Init /\ [][Next]_vars

(* ------------- the loop with its channel and handler steps ------------- *)
\* The same loop, with the channel between the watcher and rx.recv() made
\* explicit and every handler run taken one collaborator call at a time.

\* The catalogs and notifications of these runs.
QCatalogs ==
  { c \in Catalogs : c.works = WorkIds /\ \E f \in c.files : c.files = {f} /\ f.id = 1 }

QNotifications ==
  { [kind |-> "Create", path |-> Some([stem |-> "a", ext |-> "mkv"]), to |-> None],
    [kind |-> "Remove", path |-> Some([stem |-> "a", ext |-> "mkv"]), to |-> None],
    [kind |-> "Rename", path |-> Some([stem |-> "a", ext |-> "mkv"]),
                        to |-> Some([stem |-> "b", ext |-> "jpg"])],
    [kind |-> "Other", path |-> None, to |-> None] }

InitQ ==
  /\ \E c \in QCatalogs : files = c.files /\ works = c.works /\ pre = c
  /\ pc = "start"
  /\ connected = TRUE
  /\ ev = NoEvent
  /\ ftype = "unobserved"
  /\ calls = <<>>
  /\ prior = None
  /\ errs = 0
  /\ queue = <<>>
  /\ sent = 0
  /\ running = {}
  /\ log = <<>>

\* The match of start_daemon: the handler runs a notification can take,
\* each with the file type it sees on disk.
Dispatch(e) ==
  IF e.kind = "Create"
    THEN UNION { { [ft |-> ft, r |-> handle_create(files, works, unwrap(e.path), ft, o)] :
                     o \in CreateOracles } : ft \in FileTypes }
  ELSE IF e.kind = "Rename"
    THEN { [ft |-> "unobserved",
            r |-> handle_rename(files, works, unwrap(e.path), unwrap(e.to), o)] :
             o \in RenameOracles }
  ELSE IF e.kind = "Remove"
    THEN { [ft |-> "unobserved", r |-> handle_remove(files, works, unwrap(e.path), o)] :
             o \in RemoveOracles }
  ELSE { [ft |-> "unobserved", r |-> Result(files, works, <<>>, "returned")] }

\* The watcher thread sends a notification into the channel (tx.send).
Deliver ==
  /\ pc = "loop"
  /\ connected
  /\ sent < MaxSent
  /\ \E e \in QNotifications :
       queue' = Append(queue, [n |-> sent + 1, e |-> e])
  /\ sent' = sent + 1
  /\ UNCHANGED <<files, works, pc, connected, ev, ftype, pre, calls, prior, errs,
                 running, log>>

\* Faulty variant of CanDequeue: the handler is started without waiting
\* for it, so the loop is back at recv while it runs.
CanDequeue_spawned == pc = "loop"

\* The loop is at rx.recv(): the match arm of the notification before has
\* returned.
CanDequeue == pc = "loop" /\ running = {}

\* rx.recv() returns the oldest notification and its match arm is entered.
Dequeue ==
  /\ CanDequeue
  /\ queue # <<>>
  /\ \E d \in Dispatch(Head(queue).e) :
       running' = running \cup
         {[n |-> Head(queue).n, e |-> Head(queue).e, ft |-> d.ft,
           todo |-> d.r.calls, r |-> d.r]}
  /\ log' = Append(log, <<Head(queue).n, "recv">>)
  /\ queue' = Tail(queue)
  /\ UNCHANGED <<files, works, pc, connected, ev, ftype, pre, calls, prior, errs,
                 sent>>

\* A handler run makes its next collaborator call.
Step ==
  /\ \E run \in running :
       /\ run.todo # <<>>
       /\ log' = Append(log, <<run.n, Head(run.todo).op>>)
       /\ running' = (running \ {run}) \cup {[run EXCEPT !.todo = Tail(run.todo)]}
  /\ UNCHANGED <<files, works, pc, connected, ev, ftype, pre, calls, prior, errs,
                 queue, sent>>

\* A handler run returns (or panics) and its match arm ends.
Finish ==
  /\ \E run \in running :
       /\ run.todo = <<>>
       /\ running' = running \ {run}
       /\ log' = Append(log, <<run.n, run.r.outcome>>)
       /\ ev' = run.e
       /\ ftype' = run.ft
       /\ files' = run.r.files
       /\ works' = run.r.works
       /\ calls' = run.r.calls
       /\ pc' = IF run.r.outcome = "panicked" THEN "panicked" ELSE "loop"
  /\ prior' = Effect
  /\ pre' = Catalog(files, works)
  /\ UNCHANGED <<connected, errs, queue, sent>>

NextQ ==
  \/ Setup
  \/ Deliver
  \/ Dequeue
  \/ Step
  \/ Finish

SpecQ == InitQ /\ [][NextQ]_vars

(* ---------------------- reading the last handler run ------------------- *)
Handling(kind) == ev.kind = kind
EvPath == unwrap(ev.path)
EvTo == unwrap(ev.to)

\* The row of catalog c whose stored path is the text of path p, if any.
Tracked(c, p) ==
  /\ is_some(to_str(p))
  /\ \E f \in c.files : f.target_file = unwrap(to_str(p))
RowAt(c, p) == CHOOSE f \in c.files : f.target_file = unwrap(to_str(p))

\* The rows of Media w in catalog c.
RowsOf(c, w) == { f \in c.files : f.media_id = w }

Mutations == {"MediaFile::delete", "Media::delete", "UpdateMediaFile::update"}
Made(op) == { i \in DOMAIN calls : calls[i].op = op }
Succeeded(op) == \E i \in Made(op) : calls[i].ok
NoMutation == \A i \in DOMAIN calls : calls[i].op \notin Mutations
StoreOk == \A i \in DOMAIN calls : calls[i].ok
CatalogUnchanged == Catalog(files, works) = pre

\* The last lookup resolved a row (the path is tracked and the store answered).
Resolved == Succeeded("MediaFile::get_by_file")

TypeOK ==
  /\ pc \in {"start", "loop", "failed", "panicked"}
  /\ connected \in BOOLEAN
  /\ \A f, g \in files : (f.id = g.id \/ f.target_file = g.target_file) => f = g

(* ------------------------------- C1 ------------------------------------ *)
\* C1: when no File row with stored path P resolves (P never tracked,
\* already removed, or not representable as text), handling Remove(P) or
\* Rename(P, Q), for any Q, makes no deleteFile, deleteWork or updateFile
\* call, leaves every File and Work row as it was, and raises no error.
C1_UntrackedIsNoOp ==
  ((Handling("Remove") \/ Handling("Rename"))
     /\ (~ Tracked(pre, EvPath) \/ ~ Resolved))
    => (NoMutation /\ CatalogUnchanged /\ pc = "loop")

C1_Witness ==
  /\ Handling("Rename")
  /\ ~ Tracked(pre, EvPath)
  /\ ~ is_some(to_str(EvTo))
  /\ pre.files # {}
  /\ pc = "loop"

(* ------------------------------- C2 ------------------------------------ *)
\* C2: for a tracked File F whose Work W owns at least 2 File rows,
\* handling Remove(F.path) deletes exactly F's row (when the store deletes
\* it; on a store failure nothing is deleted): W still exists, every other
\* row still exists unchanged, and no other Work or File is touched.
C2_RemoveOneOfMany ==
  (/\ Handling("Remove")
   /\ Tracked(pre, EvPath)
   /\ Cardinality(RowsOf(pre, RowAt(pre, EvPath).media_id)) >= 2)
    => /\ works = pre.works
       /\ RowAt(pre, EvPath).media_id \in works
       /\ files = IF Succeeded("MediaFile::delete")
                    THEN pre.files \ {RowAt(pre, EvPath)}
                    ELSE pre.files
       /\ Made("Media::delete") = {}
       /\ pc = "loop"

C2_Witness ==
  /\ Handling("Remove")
  /\ Tracked(pre, EvPath)
  /\ Cardinality(RowsOf(pre, RowAt(pre, EvPath).media_id)) = 2
  /\ Cardinality(pre.files) = 3
  /\ files = pre.files \ {RowAt(pre, EvPath)}
  /\ works = pre.works

(* ------------------------------- C3 ------------------------------------ *)
\* C3: for a tracked File F that is the sole File row of its Work W,
\* handling Remove(F.path), with the store calls of the handler succeeding,
\* deletes both: neither F's row nor W's row exists afterwards, and
\* nothing else is deleted.
C3_RemoveSoleFile ==
  (/\ Handling("Remove")
   /\ Tracked(pre, EvPath)
   /\ RowsOf(pre, RowAt(pre, EvPath).media_id) = {RowAt(pre, EvPath)}
   /\ StoreOk)
    => /\ files = pre.files \ {RowAt(pre, EvPath)}
       /\ works = pre.works \ {RowAt(pre, EvPath).media_id}
       /\ RowAt(pre, EvPath).media_id \notin works
       /\ pc = "loop"

C3_Witness ==
  /\ Handling("Remove")
  /\ Tracked(pre, EvPath)
  /\ RowsOf(pre, RowAt(pre, EvPath).media_id) = {RowAt(pre, EvPath)}
  /\ StoreOk
  /\ Cardinality(pre.files) >= 2
  /\ RowAt(pre, EvPath).media_id \in pre.works
  /\ RowAt(pre, EvPath).media_id \notin works

(* ------------------------------- C4 ------------------------------------ *)
\* The Work the last notification touched: the Work of the row it resolved.
TouchedWork == RowAt(pre, EvPath).media_id
Touching ==
  (Handling("Remove") \/ Handling("Rename")) /\ Tracked(pre, EvPath)
Ghost(w) == w \in works /\ RowsOf(Catalog(files, works), w) = {}

C5_RenameSetsPathOnly ==
  (Handling("Rename") /\ Tracked(pre, EvPath))
    => LET F == RowAt(pre, EvPath) IN
       /\ works = pre.works
       /\ NoMutation \/ Made("UpdateMediaFile::update") = {Len(calls)}
       /\ Made("MediaFile::delete") = {} /\ Made("Media::delete") = {}
       /\ files =
            IF Succeeded("UpdateMediaFile::update")
              THEN (pre.files \ {F})
                     \cup {[F EXCEPT !.target_file = unwrap(to_str(EvTo))]}
              ELSE pre.files

C5_Witness ==
  /\ Handling("Rename")
  /\ Tracked(pre, EvPath)
  /\ Succeeded("UpdateMediaFile::update")
  /\ EvTo # EvPath
  /\ Cardinality(pre.files) >= 2
  /\ \E f \in files : f.target_file = unwrap(to_str(EvTo))
                        /\ f.id = RowAt(pre, EvPath).id
                        /\ f.media_id = RowAt(pre, EvPath).media_id

(* ------------------------------- C6 ------------------------------------ *)
\* C6: when Rename(P, Q) resolves P to a tracked File but Q cannot be
\* represented as text, the handler treats it as a logged update failure:
\* the process does not crash, the row's path is unchanged, and the loop
\* goes on to the next notification.
C6_BadDestinationIsUpdateFailure ==
  (Handling("Rename") /\ Resolved /\ ~ is_some(to_str(EvTo)))
    => (pc = "loop" /\ CatalogUnchanged)

(* ------------------------------- C7 ------------------------------------ *)
Count(op) == Cardinality(Made(op))
Before(op1, op2) == \A i \in Made(op1), j \in Made(op2) : i < j

\* C7: for Create(P) with P a regular file with a supported extension, the
\* handler calls mount(P) exactly once and never scan; if mount fails
\* fixOrphans is not called; if mount succeeds fixOrphans is called exactly
\* once, after mount.
C7_CreateSupportedFile ==
  (/\ Handling("Create")
   /\ is_file(ftype)
   /\ is_some(extension(EvPath))
   /\ unwrap(extension(EvPath)) \in SUPPORTED_EXTS)
    => /\ Count("mount_file") = 1
       /\ \A i \in Made("mount_file") : calls[i].arg = EvPath
       /\ Count("start") = 0
       /\ Count("fix_orphans") = IF Succeeded("mount_file") THEN 1 ELSE 0
       /\ Before("mount_file", "fix_orphans")
       /\ pc = "loop"

C7_Witness ==
  /\ Handling("Create")
  /\ is_file(ftype)
  /\ Count("mount_file") = 1
  /\ ~ Succeeded("mount_file")
  /\ Count("fix_orphans") = 0

(* ------------------------------- C8 ------------------------------------ *)
\* C8: for Create(P) with P a directory, the handler never calls mount; it
\* calls the recursive scan exactly once, passing P's text form
\* (path.to_str()), and then fixOrphans exactly once, the scan strictly
\* before fixOrphans.
C8_CreateDirectory ==
  (Handling("Create") /\ is_dir(ftype))
    => /\ Count("mount_file") = 0
       /\ Count("start") = 1
       /\ \A i \in Made("start") : calls[i].arg = to_str(EvPath)
       /\ Count("fix_orphans") = 1
       /\ Before("start", "fix_orphans")
       /\ Len(calls) = 2
       /\ pc = "loop"

C8_Witness ==
  /\ Handling("Create")
  /\ is_dir(ftype)
  /\ is_some(to_str(EvPath))
  /\ calls = <<Call("start", to_str(EvPath), TRUE), Call("fix_orphans", None, TRUE)>>

(* ------------------------------- C9 ------------------------------------ *)
\* C9: for Create(P) with P a regular file whose extension is not a
\* supported one (or that has no extension), the handler calls neither
\* mount nor scan and calls fixOrphans exactly once.
C9_CreateUnsupportedFile ==
  (/\ Handling("Create")
   /\ is_file(ftype)
   /\ ~ (is_some(extension(EvPath))
           /\ unwrap(extension(EvPath)) \in SUPPORTED_EXTS))
    => /\ Count("mount_file") = 0
       /\ Count("start") = 0
       /\ Count("fix_orphans") = 1
       /\ pc = "loop"

C9_Witness ==
  /\ Handling("Create")
  /\ is_file(ftype)
  /\ ~ is_some(extension(EvPath))
  /\ calls = <<Call("fix_orphans", None, TRUE)>>

(* ------------------------------- C10 ----------------------------------- *)
\* The notification just handled is a Remove that repeats the one handled
\* right before it, and that first delivery deleted a row.
SecondDelivery ==
  /\ Handling("Remove")
  /\ is_some(prior)
  /\ unwrap(prior).ev = ev

\* C10: when the same Remove(P) is delivered twice in a row and the first
\* delivery deleted P's File row, the first delivery deleted exactly one
\* File row and the second delivery is a no-op: it finds no row, makes no
\* delete or update call, leaves the catalog equal to the state after the
\* first delivery and raises no error.
C10_RemoveIdempotent ==
  SecondDelivery
    => /\ unwrap(prior).deleted = 1
       /\ ~ Tracked(pre, EvPath)
       /\ ~ Resolved
       /\ NoMutation
       /\ CatalogUnchanged
       /\ pc = "loop"

C10_Witness ==
  /\ SecondDelivery
  /\ CatalogUnchanged
  /\ files # {}
  /\ Made("MediaFile::get_by_file") = {1}

(* ------------------------------- C11 ----------------------------------- *)
HandlerRan == Handling("Create") \/ Handling("Rename") \/ Handling("Remove")

\* C11: no failure inside a handler (mount failure, File or Work delete
\* failure, update failure, lookup miss, unrepresentable path) ends the
\* dispatcher loop: after every handler run the loop is back at its
\* receive, ready for the next notification.
C11_HandlerFailureKeepsLoop == HandlerRan => pc = "loop"

(* ------------------------------- C13 ----------------------------------- *)
DeleteFileFailed ==
  /\ Handling("Remove")
  /\ Made("MediaFile::delete") # {}
  /\ ~ Succeeded("MediaFile::delete")

\* C13: when Remove(P) resolves a tracked File F and deleting F's row
\* fails, the handler aborts without Work cleanup: it does not list the
\* Work's files, does not call deleteWork, and the catalog is unchanged.
C13_DeleteFailureAborts ==
  DeleteFileFailed
    => /\ Made("MediaFile::get_of_media") = {}
       /\ Made("Media::delete") = {}
       /\ calls[Len(calls)].op = "MediaFile::delete"
       /\ CatalogUnchanged
       /\ pc = "loop"

C13_Witness ==
  /\ DeleteFileFailed
  /\ Succeeded("Media::get_of_mediafile")
  /\ RowsOf(pre, RowAt(pre, EvPath).media_id) = {RowAt(pre, EvPath)}
  /\ CatalogUnchanged

(* ------------------------------- C14 ----------------------------------- *)
DeleteWorkFailed ==
  /\ Handling("Remove")
  /\ Made("Media::delete") # {}
  /\ ~ Succeeded("Media::delete")

\* C14: when Remove(P) deletes the last File F of Work W and deleting W
\* then fails, the deletion of F is not rolled back: afterwards F's row is
\* absent, W's row is still present, nothing else changed, and the failure
\* does not leave the loop.
C14_WorkDeleteFailureKeepsFileDeletion ==
  DeleteWorkFailed
    => /\ Tracked(pre, EvPath)
       /\ RowsOf(pre, RowAt(pre, EvPath).media_id) = {RowAt(pre, EvPath)}
       /\ files = pre.files \ {RowAt(pre, EvPath)}
       /\ works = pre.works
       /\ RowAt(pre, EvPath).media_id \in works
       /\ pc = "loop"

C14_Witness ==
  /\ DeleteWorkFailed
  /\ RowAt(pre, EvPath) \notin files
  /\ Ghost(RowAt(pre, EvPath).media_id)

(* ------------------------------- C15 ----------------------------------- *)
\* C15: an unclassified (Other) notification causes no state change: the
\* loop makes no catalog call and no ingestor call for it, the catalog is
\* the same before and after, and the loop goes on to the next receive.
C15_OtherIsIgnored ==
  Handling("Other") => (calls = <<>> /\ CatalogUnchanged /\ pc = "loop")

C15_Witness ==
  /\ Handling("Other")
  /\ is_some(prior)
  /\ files # {}
  /\ pc = "loop"

(* ------------------------------- C16 ----------------------------------- *)
\* C16: when watch setup fails (creating the watcher or registering the
\* watch), start_daemon returns the failure without entering the loop: no
\* notification is dequeued and no handler, catalog call or ingestor runs.
C16_SetupFailureReturns ==
  pc = "failed"
    => /\ ev = NoEvent
       /\ calls = <<>>
       /\ CatalogUnchanged
       /\ ~ ENABLED (RecvCreate \/ RecvRename \/ RecvRemove \/ RecvOther
                       \/ RecvError)

C16_Witness == pc = "failed" /\ files # {} /\ ev = NoEvent

(* ------------------------------- C18 ----------------------------------- *)
\* C18: starting from a catalog in which every File row's Work exists,
\* after any sequence of notifications, with any store call failing, every
\* remaining File row's Work still exists; and deleteWork is called on a
\* Work only after a File of that Work was deleted in the same handler run
\* and the Work's file list was then observed empty.
C18_FilesKeepTheirWork ==
  /\ \A f \in files : f.media_id \in works
  /\ Made("Media::delete") # {}
       => /\ Handling("Remove")
          /\ Succeeded("MediaFile::delete")
          /\ Succeeded("MediaFile::get_of_media")
          /\ Before("MediaFile::delete", "MediaFile::get_of_media")
          /\ Before("MediaFile::get_of_media", "Media::delete")
          /\ \A i \in Made("Media::delete") :
               /\ calls[i].arg = RowAt(pre, EvPath).media_id
               /\ RowsOf(Catalog(files, works), calls[i].arg) = {}

C18_Witness ==
  /\ Succeeded("Media::delete")
  /\ is_some(prior)
  /\ files # {}
  /\ \A f \in files : f.media_id \in works

(* ------------------------------- C19 ----------------------------------- *)
\* The notification handled before the last one was a Rename(P, Q), P # Q,
\* that moved a row's path from P to Q.
AfterRename ==
  /\ is_some(prior)
  /\ unwrap(prior).ev.kind = "Rename"
  /\ unwrap(prior).ev.path # unwrap(prior).ev.to
RenamedFrom == unwrap(unwrap(prior).ev.path)
RenamedTo == unwrap(unwrap(prior).ev.to)

\* C19: after Rename(P, Q) of a tracked File F succeeded (Q # P, Q held by
\* no row), the next Remove(P) or Rename(P, R) is a no-op on the catalog,
\* while the next Remove(Q), its store calls succeeding, deletes the row
\* now stored at Q (and its Work when that row was the Work's only one).
C19_RenameMovesJoinKey ==
  AfterRename
    => /\ ~ Tracked(pre, RenamedFrom)
       /\ Tracked(pre, RenamedTo)
       /\ ((Handling("Remove") \/ Handling("Rename")) /\ EvPath = RenamedFrom)
            => (NoMutation /\ CatalogUnchanged /\ pc = "loop")
       /\ (Handling("Remove") /\ EvPath = RenamedTo /\ StoreOk)
            => LET F == RowAt(pre, RenamedTo) IN
               /\ files = pre.files \ {F}
               /\ works = IF RowsOf(pre, F.media_id) = {F}
                            THEN pre.works \ {F.media_id}
                            ELSE pre.works

C19_Witness ==
  /\ AfterRename
  /\ Handling("Remove")
  /\ EvPath = RenamedTo
  /\ StoreOk
  /\ Succeeded("Media::delete")
  /\ ~ Tracked(Catalog(files, works), RenamedTo)

C19_WitnessOldPath ==
  /\ AfterRename
  /\ Handling("Remove")
  /\ EvPath = RenamedFrom
  /\ CatalogUnchanged

(* ------------------------------- C20 ----------------------------------- *)
\* C20: for Create(P) where P is, when handled, neither a regular file nor
\* a directory, whatever its extension, the handler calls neither mount
\* nor scan and calls fixOrphans exactly once.
C20_CreateVanishedPath ==
  (Handling("Create") /\ ~ is_file(ftype) /\ ~ is_dir(ftype))
    => /\ Count("mount_file") = 0
       /\ Count("start") = 0
       /\ Count("fix_orphans") = 1
       /\ Len(calls) = 1
       /\ pc = "loop"

C20_Witness ==
  /\ Handling("Create")
  /\ ftype = "other"
  /\ has_supported_ext(EvPath)
  /\ calls = <<Call("fix_orphans", None, TRUE)>>

(* ------------------------------- C17 ----------------------------------- *)
\* The stream is permanently closed: a receive has failed, and so will
\* every later one.
StreamClosed == ~ connected

\* C17 as stated: once the notification stream is permanently closed the
\* loop stops consuming and ends, so any step taken after the closure has
\* been seen leaves the loop instead of receiving again.
C17_ClosedStreamEndsLoop == [][StreamClosed => pc' # "loop"]_vars

\* C17 amended: the loop has no exit.  Once the notification stream is
\* permanently closed the loop stays at its receive: every later receive
\* fails and is logged, no handler runs, the catalog does not change, and
\* the loop can always iterate again.
C17_ClosedStreamKeepsLooping ==
  StreamClosed
    => /\ pc = "loop"
       /\ Handling("Error")
       /\ calls = <<>>
       /\ CatalogUnchanged
       /\ ENABLED RecvError
       /\ ~ ENABLED (RecvCreate \/ RecvRename \/ RecvRemove \/ RecvOther)

C17_Witness ==
  /\ StreamClosed
  /\ errs = MaxErrs
  /\ pc = "loop"
  /\ files # {}

(* ------------------------------- C12 ----------------------------------- *)
\* C12: notifications are handled strictly in delivery order by a single
\* sequential consumer: at most one handler run is in progress, and in the
\* order of receives, collaborator calls and returns the entries of
\* notification i all come before those of notification i+1, so the calls
\* of two notifications never interleave and a notification is dequeued
\* only after the run before it has returned.
C12_SequentialInOrder ==
  /\ Cardinality(running) <= 1
  /\ \A i, j \in DOMAIN log : i < j => log[i][1] <= log[j][1]
  /\ \A j \in DOMAIN log :
       log[j][2] = "recv"
         => \A m \in 1..(log[j][1] - 1) :
              \E i \in 1..(j - 1) : log[i] = <<m, "returned">>
  /\ \A k \in DOMAIN queue : queue[k].n = sent - Len(queue) + k

C12_Witness ==
  /\ sent = 2
  /\ running = {}
  /\ queue = <<>>
  /\ Len(log) >= 7
  /\ \E j \in DOMAIN log : log[j] = <<2, "Media::delete">>
  /\ log[Len(log)] = <<2, "returned">>

====
